---- MODULE Spec2Model ----
(***************************************************************************)
(* Account backend (src/main.py): the FastAPI handlers read_root, hello,   *)
(* test_database, signup and login over one document collection            *)
(* ("account").  Handlers run in a thread pool, so the steps of different  *)
(* requests interleave; a signup is two steps on the store (find_one, then *)
(* create_document), a login is one (find_one).  pending holds the signups *)
(* that are between the two, out the last response given, issued what the  *)
(* successful signups returned.                                            *)
(*                                                                         *)
(* Strings are sequences of one-character strings, so that strip() and     *)
(* lower() are computed rather than assumed.  find_one and create_document *)
(* are assumed to return (no driver exception) whenever the handle is      *)
(* present; list_collection_names may raise, as the handler expects.       *)
(***************************************************************************)
EXTENDS Naturals, Sequences, FiniteSets, Bags

VARIABLES env, db, accounts, pending, out, issued

vars == <<env, db, accounts, pending, out, issued>>

(* ------------------------------ bounds -------------------------------- *)

\* accounts stored plus signups past their lookup
MaxAccounts == 2
\* collections of the database other than "account"
MaxOtherColls == 10

(* ------------------------- program constants -------------------------- *)

\* collections[:10]
MaxCollections == 10
\* str(e)[:50]
MaxErrChars == 50

(* ------------------------------ strings ------------------------------- *)

None == <<"None">>

IsSpace(c) == c = " "

LowerChar(c) == IF c = "A" THEN "a" ELSE IF c = "B" THEN "b" ELSE c

\* str.lower()
Lower(s) == [i \in 1..Len(s) |-> LowerChar(s[i])]

RECURSIVE LStrip(_)
LStrip(s) == IF s # <<>> /\ IsSpace(Head(s)) THEN LStrip(Tail(s)) ELSE s

RECURSIVE RStrip(_)
RStrip(s) ==
    IF s # <<>> /\ IsSpace(s[Len(s)]) THEN RStrip(SubSeq(s, 1, Len(s) - 1)) ELSE s

\* str.strip()
Strip(s) == RStrip(LStrip(s))

\* s[:n]
Prefix(s, n) == SubSeq(s, 1, IF Len(s) < n THEN Len(s) ELSE n)

Digits == <<"1", "2", "3", "4", "5", "6", "7", "8", "9">>

\* str(ObjectId)
IdStr(n) == <<"i", Digits[n]>>

(* ------------------------------ inputs -------------------------------- *)

RawNames == { <<"a">>, <<" ", "a", " ">>, <<"A">> }

RawEmails == { <<"A", "@", "x", " ">>, <<"b", "@", "x">> }

Passwords == { <<"p">>, <<"q">> }

\* a password and an avatar_url that are submitted together
Credentials == { << <<"p">>, None >>, << <<"q">>, <<"u">> >> }

SignupPayload ==
    { [name |-> n, email |-> e, password |-> c[1], avatar_url |-> c[2]] :
        n \in RawNames, e \in RawEmails, c \in Credentials }

LoginPayload == [name : RawNames, password : Passwords]

NoReq == [none |-> TRUE]

EnvNames == { "DATABASE_URL", "DATABASE_NAME" }

\* the handle the connector exposes: None unless both variables are set and
\* the connection was made
DbHandles(e) == IF e = EnvNames THEN BOOLEAN ELSE { FALSE }

(* --------------------------- password hashing ------------------------- *)

\* pwd_context.hash: a salted one-way hash
Hash(password, salt) == <<"$2b$", salt>> \o password

\* the salt bcrypt draws at random: a value no stored hash was made with
FreshSalt(coll) == Digits[Len(coll) + 1]

\* pwd_context.verify
Verify(password, hash) ==
    /\ Len(hash) >= 2
    /\ hash[1] = "$2b$"
    /\ SubSeq(hash, 3, Len(hash)) = password

(* ------------------------------ the store ----------------------------- *)

\* db["account"].find_one(filter), hits being the places of the documents the
\* filter matches: one of them (the store fixes no order), or None
FindOne(coll, hits) ==
    IF hits = {} THEN { NoReq } ELSE { coll[i] : i \in hits }

\* create_document: the store assigns an id nothing else has
InsertOne(coll, account) ==
    Append(coll, [f \in DOMAIN account \cup {"_id"} |->
                     IF f = "_id" THEN Len(coll) + 1 ELSE account[f]])

\* db.list_collection_names() when it returns
CollectionNames(coll, others) ==
    (IF coll = <<>> THEN <<>> ELSE << <<"account">> >>)
        \o [i \in 1..others |-> <<"c", Digits[(i % 9) + 1]>>]

(* ------------------------------ responses ----------------------------- *)

\* raise HTTPException(status_code, detail)
HTTPException(status_code, detail) ==
    [status |-> status_code, body |-> [detail |-> detail]]

\* a returned dict: FastAPI's default status
Ok(body) == [status |-> 200, body |-> body]

\* what a handler answered: the request, the response and the line it left at
Reply(op, req, r, line) ==
    [op |-> op, req |-> req, status |-> r.status, body |-> r.body, line |-> line]

NoOut == [op |-> "none", req |-> NoReq, status |-> 0, body |-> NoReq, line |-> 0]

\* mutant: the handle is never found missing
DbMissingNever(dbh) == FALSE

\* db is None
DbMissing(dbh) == dbh = FALSE

DbNotAvailable == HTTPException(500, "Database not available")

(* ------------------------------- signup ------------------------------- *)

\* name = payload.name.strip()
NormName(s) == Strip(s)

\* mutant: the email is trimmed and not lowercased
NormEmailNoLower(s) == Strip(s)

\* email = payload.email.lower().strip()
NormEmail(s) == Strip(Lower(s))

\* mutant: the lookup asks for the email alone
SignupFilterEmailOnly(doc, name, email) == doc.email = email

\* mutant: the lookup asks for the email and the name together ($and)
SignupFilterBoth(doc, name, email) == doc.email = email /\ doc.name = name

\* {"$or": [{"email": email}, {"name": name}]}
SignupFilter(doc, name, email) == doc.email = email \/ doc.name = name

SignupConflict ==
    HTTPException(400, "Account with this email or name already exists")

\* Account(name=..., email=..., password_hash=..., avatar_url=..., onboarded=False)
NewAccount(name, email, password_hash, avatar_url) ==
    [name |-> name, email |-> email, password_hash |-> password_hash,
     avatar_url |-> avatar_url, onboarded |-> FALSE]

\* mutant: the response carries the stored hash
SignupResponseWithHash(inserted_id, account) ==
    [id |-> inserted_id, name |-> account.name, email |-> account.email,
     avatar_url |-> account.avatar_url, onboarded |-> account.onboarded,
     password_hash |-> account.password_hash]

\* the dict signup returns
SignupResponse(inserted_id, account) ==
    [id |-> inserted_id, name |-> account.name, email |-> account.email,
     avatar_url |-> account.avatar_url, onboarded |-> account.onboarded]

\* signup up to the uniqueness lookup: either it raises, or it goes on to insert
SignupLookup(payload) ==
    IF DbMissing(db)
    THEN /\ out' = Reply("signup", payload, DbNotAvailable, 89)
         /\ UNCHANGED <<env, db, accounts, pending, issued>>
    ELSE LET name == NormName(payload.name)
             email == NormEmail(payload.email)
             hits == { i \in 1..Len(accounts) : SignupFilter(accounts[i], name, email) }
         IN  \E existing \in FindOne(accounts, hits) :
               IF existing # NoReq
               THEN /\ out' = Reply("signup", payload, SignupConflict, 97)
                    /\ UNCHANGED <<env, db, accounts, pending, issued>>
               ELSE /\ Len(accounts) + BagCardinality(pending) < MaxAccounts
                    /\ pending' = pending (+) SetToBag(
                           { [payload |-> payload, name |-> name, email |-> email] })
                    /\ UNCHANGED <<env, db, accounts, out, issued>>

\* signup from the hashing on: hash, construct, insert, return
SignupInsert(ctx) ==
    /\ BagIn(ctx, pending)
    /\ LET password_hash == Hash(ctx.payload.password, FreshSalt(accounts))
           account == NewAccount(ctx.name, ctx.email, password_hash,
                                 ctx.payload.avatar_url)
           stored == InsertOne(accounts, account)
           inserted_id == IdStr(stored[Len(stored)]._id)
           response == SignupResponse(inserted_id, account)
       IN  /\ accounts' = stored
           /\ out' = Reply("signup", ctx.payload, Ok(response), 109)
           /\ issued' = issued \cup
                 { [id |-> response.id, name |-> response.name,
                    password |-> ctx.payload.password] }
    /\ pending' = pending (-) SetToBag({ ctx })
    /\ UNCHANGED <<env, db>>

(* -------------------------------- login ------------------------------- *)

\* {"name": payload.name.strip()}
LoginFilter(doc, name) == doc.name = name

\* mutant: an unknown name is told apart
LoginNoAccountTold == HTTPException(404, "Account not found")

LoginNoAccount == HTTPException(401, "Invalid name or password")

LoginBadPassword == HTTPException(401, "Invalid name or password")

\* the dict login returns
LoginResponse(doc) ==
    [id |-> IdStr(doc._id), name |-> doc.name, email |-> doc.email,
     avatar_url |-> doc.avatar_url, onboarded |-> doc.onboarded]

\* login on one looked-up document
LoginOn(payload, doc) ==
    IF doc = NoReq
    THEN Reply("login", payload, LoginNoAccount, 126)
    ELSE IF ~Verify(payload.password, doc.password_hash)
         THEN Reply("login", payload, LoginBadPassword, 129)
         ELSE Reply("login", payload, Ok(LoginResponse(doc)), 131)

\* every answer login can give in a state of the store
LoginOutcomes(dbh, coll, payload) ==
    IF DbMissing(dbh)
    THEN { Reply("login", payload, DbNotAvailable, 121) }
    ELSE LET name == Strip(payload.name)
             hits == { i \in 1..Len(coll) : LoginFilter(coll[i], name) }
         IN  { LoginOn(payload, doc) : doc \in FindOne(coll, hits) }

\* mutant: a login that succeeds marks the account onboarded
LoginMarksOnboarded(payload) ==
    /\ out' \in LoginOutcomes(db, accounts, payload)
    /\ accounts' = [i \in 1..Len(accounts) |->
                       IF out'.status = 200 /\ IdStr(accounts[i]._id) = out'.body.id
                       THEN [accounts[i] EXCEPT !.onboarded = TRUE]
                       ELSE accounts[i]]
    /\ UNCHANGED <<env, db, pending, issued>>

Login(payload) ==
    /\ out' \in LoginOutcomes(db, accounts, payload)
    /\ UNCHANGED <<env, db, accounts, pending, issued>>

(* ----------------------------- diagnostics ---------------------------- *)

ReadRoot ==
    /\ out' = Reply("read_root", NoReq,
                    Ok([message |-> "Hello from FastAPI Backend!"]), 25)
    /\ UNCHANGED <<env, db, accounts, pending, issued>>

Hello ==
    /\ out' = Reply("hello", NoReq,
                    Ok([message |-> "Hello from the backend API!"]), 30)
    /\ UNCHANGED <<env, db, accounts, pending, issued>>

\* an exception text of n characters
ErrText(n) == [i \in 1..n |-> "e"]

ErrTexts == { ErrText(3), ErrText(MaxErrChars + 1) }

\* mutant: the list is returned whole
FirstCollectionsAll(collections) == collections

\* collections[:10]
FirstCollections(collections) == Prefix(collections, MaxCollections)

\* the response dict of test_database; raised is <<>> or <<text>>
TestResponse(dbh, collections, raised, e) ==
    [backend |-> "Running",
     database |->
        IF DbMissing(dbh) THEN <<"Available but not initialized">>
        ELSE IF raised # <<>>
             THEN <<"Connected but Error">> \o Prefix(raised[1], MaxErrChars)
             ELSE <<"Connected & Working">>,
     database_url |-> IF "DATABASE_URL" \in e THEN "Set" ELSE "Not Set",
     database_name |-> IF "DATABASE_NAME" \in e THEN "Set" ELSE "Not Set",
     connection_status |-> IF DbMissing(dbh) THEN "Not Connected" ELSE "Connected",
     collections |->
        IF DbMissing(dbh) \/ raised # <<>> THEN <<>>
        ELSE FirstCollections(collections)]

\* others: the collections beside "account"; raised: what list_collection_names
\* raised, if it did
TestDatabase(others, raised) ==
    LET collections == CollectionNames(accounts, others)
    IN  /\ out' = Reply("test_database",
                        [listed |-> IF DbMissing(db) \/ raised # <<>>
                                    THEN 0 ELSE Len(collections)],
                        Ok(TestResponse(db, collections, raised, env)), 68)
        /\ UNCHANGED <<env, db, accounts, pending, issued>>

(* --------------------------- the state machine ------------------------ *)

Init ==
    /\ env \in SUBSET EnvNames
    /\ db \in DbHandles(env)
    /\ accounts = <<>>
    /\ pending = EmptyBag
    /\ out = NoOut
    /\ issued = {}

Next ==
    \/ ReadRoot
    \/ Hello
    \/ \E others \in 0..MaxOtherColls : TestDatabase(others, <<>>)
    \/ \E e \in ErrTexts : TestDatabase(0, <<e>>)
    \/ \E payload \in SignupPayload : SignupLookup(payload)
    \/ \E ctx \in BagToSet(pending) : SignupInsert(ctx)
    \/ \E payload \in LoginPayload : Login(payload)

Spec == Init /\ [][Next]_vars

\* signups one at a time: a lookup starts only when no signup is between its
\* lookup and its insert
SignupLookupAlone(payload) == pending = EmptyBag /\ SignupLookup(payload)

NextSeq ==
    \/ ReadRoot
    \/ Hello
    \/ \E others \in 0..MaxOtherColls : TestDatabase(others, <<>>)
    \/ \E e \in ErrTexts : TestDatabase(0, <<e>>)
    \/ \E payload \in SignupPayload : SignupLookupAlone(payload)
    \/ \E ctx \in BagToSet(pending) : SignupInsert(ctx)
    \/ \E payload \in LoginPayload : Login(payload)

SpecSeq == Init /\ [][NextSeq]_vars

(* ------------------- what the claims say, restated -------------------- *)

Uppers == { "A", "B" }

SameLetter(c, d) == c = d \/ {c, d} \in { {"a", "A"}, {"b", "B"} }

\* t is s without its leading and trailing blanks
IsTrimOf(t, s) ==
    \E i \in 1..Len(s) + 1, j \in 0..Len(s) :
        /\ t = SubSeq(s, i, j)
        /\ \A k \in 1..Len(s) : (k < i \/ k > j) => s[k] = " "
        /\ t = <<>> \/ (t[1] # " " /\ t[Len(t)] # " ")

\* l is s with every letter in lower case
IsLowerOf(l, s) ==
    /\ Len(l) = Len(s)
    /\ \A k \in 1..Len(s) : l[k] \notin Uppers /\ SameLetter(l[k], s[k])

\* e is s lowercased and trimmed
IsLowerTrimOf(e, s) ==
    \E i \in 1..Len(s) + 1, j \in 0..Len(s) :
        /\ IsLowerOf(e, SubSeq(s, i, j))
        /\ \A k \in 1..Len(s) : (k < i \/ k > j) => s[k] = " "
        /\ e = <<>> \/ (e[1] # " " /\ e[Len(e)] # " ")

\* e is in lowercase-trimmed form
LowerTrimmed(e) ==
    /\ \A k \in 1..Len(e) : e[k] \notin Uppers
    /\ e = <<>> \/ (e[1] # " " /\ e[Len(e)] # " ")

InvalidLogin == [detail |-> "Invalid name or password"]

LastAccount == accounts[Len(accounts)]

SignedUp == out.op = "signup" /\ out.status = 200

\* C1: no two stored accounts share a name and no two share an email, however
\* the lookups and inserts of concurrent signups interleave.
C1_NoTwoAccountsAlike ==
    \A i, j \in 1..Len(accounts) :
        i # j => /\ accounts[i].name # accounts[j].name
                 /\ accounts[i].email # accounts[j].email

\* C2: a signup whose normalized email or trimmed name is that of an account
\* already stored fails with 400 and the fixed detail, and changes nothing.
C2_DuplicateSignupRejected ==
    [][\A payload \in SignupPayload :
          ( /\ out'.req = payload \/ pending' # pending
            /\ \E i \in 1..Len(accounts) :
                  \/ IsLowerTrimOf(accounts[i].email, payload.email)
                  \/ IsTrimOf(accounts[i].name, payload.name)
            /\ SignupLookup(payload) )
          => /\ out'.op = "signup" /\ out'.req = payload
             /\ out'.status = 400
             /\ out'.body =
                  [detail |-> "Account with this email or name already exists"]
             /\ accounts' = accounts /\ pending' = pending]_vars

\* a signup was refused for its email alone: the stored account has another name
C2_Witness ==
    /\ out.op = "signup" /\ out.status = 400
    /\ \E i \in 1..Len(accounts) :
          /\ IsLowerTrimOf(accounts[i].email, out.req.email)
          /\ ~IsTrimOf(accounts[i].name, out.req.name)
    /\ \A i \in 1..Len(accounts) : ~IsTrimOf(accounts[i].name, out.req.name)

\* C3: a login with the name and password of a signup that succeeded succeeds
\* and returns the id that signup returned, whatever happened in between.
C3_LoginReturnsSignupId ==
    \A r \in issued :
        \A reply \in LoginOutcomes(db, accounts,
                                   [name |-> r.name, password |-> r.password]) :
            reply.status = 200 /\ reply.body.id = r.id

\* C4: with the database there, a login with an unknown name and a login with
\* a known name and a wrong password get the same answer, 401 "Invalid name or
\* password"; no failed login answers otherwise.
C4_FailedLoginsAlike ==
    (out.op = "login" /\ db) =>
        LET known == { r \in issued : IsTrimOf(r.name, out.req.name) }
            right == { r \in known : r.password = out.req.password }
        IN  /\ (known = {} \/ right = {}) => out.status = 401
            /\ out.status # 200 => out.status = 401 /\ out.body = InvalidLogin

\* the wrong-password case: the account exists and the answer is the unknown
\* name's
C4_Witness ==
    /\ out.op = "login" /\ out.line = 129
    /\ \E r \in issued : IsTrimOf(r.name, out.req.name)
    /\ out.status = 401 /\ out.body = InvalidLogin

\* C5: with no database handle every signup and every login fails with 500
\* "Database not available" at its first statement, and nothing is stored.
C5_NoDatabaseNoService ==
    ~db =>
        /\ accounts = <<>> /\ pending = EmptyBag /\ issued = {}
        /\ out.op \in { "signup", "login" } =>
              /\ out.status = 500
              /\ out.body = [detail |-> "Database not available"]
              /\ out.line \in { 89, 121 }

C5_Witness ==
    /\ ~db
    /\ out.op = "signup" /\ out.status = 500
    /\ out.body = [detail |-> "Database not available"]

\* C6: a successful signup stores the submitted email lowercased and trimmed
\* and the submitted name trimmed, and returns the stored email and name; so
\* every stored email is in lowercase-trimmed form.
C6_StoredEmailNormalized ==
    /\ \A i \in 1..Len(accounts) : LowerTrimmed(accounts[i].email)
    /\ SignedUp =>
          /\ accounts # <<>>
          /\ IsLowerTrimOf(LastAccount.email, out.req.email)
          /\ IsTrimOf(LastAccount.name, out.req.name)
          /\ out.body.email = LastAccount.email
          /\ out.body.name = LastAccount.name

\* a signup succeeded whose email and name both needed normalizing
C6_Witness ==
    /\ SignedUp
    /\ out.req.email # out.body.email
    /\ out.req.name # out.body.name

\* C7: with the database there, a signup that matches no stored account goes
\* through: its lookup raises nothing, its insert adds exactly one account, and
\* it returns 200 with exactly id, name, email, avatar_url and onboarded=false,
\* none of them the password or its hash.
C7_FreshSignupSucceeds ==
    [][/\ \A payload \in SignupPayload :
             ( /\ db
               /\ out'.req = payload \/ pending' # pending
               /\ \A i \in 1..Len(accounts) :
                     /\ ~IsLowerTrimOf(accounts[i].email, payload.email)
                     /\ ~IsTrimOf(accounts[i].name, payload.name)
               /\ SignupLookup(payload) )
             => /\ out' = out /\ accounts' = accounts
                /\ BagCardinality(pending') = BagCardinality(pending) + 1
                /\ \E ctx \in BagToSet(pending') :
                      /\ ctx.payload = payload
                      /\ CopiesIn(ctx, pending') = CopiesIn(ctx, pending) + 1
       /\ \A ctx \in BagToSet(pending) :
             (accounts' # accounts /\ SignupInsert(ctx))
             => /\ Len(accounts') = Len(accounts) + 1
                /\ SubSeq(accounts', 1, Len(accounts)) = accounts
                /\ out'.op = "signup" /\ out'.req = ctx.payload
                /\ out'.status = 200
                /\ DOMAIN out'.body =
                      { "id", "name", "email", "avatar_url", "onboarded" }
                /\ out'.body.onboarded = FALSE
                /\ out'.body.avatar_url = ctx.payload.avatar_url
                /\ \A f \in { "id", "name", "email", "avatar_url" } :
                      /\ out'.body[f] # ctx.payload.password
                      /\ out'.body[f] # accounts'[Len(accounts')].password_hash]_vars

C7_Witness ==
    /\ SignedUp
    /\ Len(accounts) = 1
    /\ out.body.id = IdStr(accounts[1]._id)
    /\ out.body.onboarded = FALSE

\* C8: GET /test answers 200 whatever the database does: it reports the
\* backend as running and lists at most 10 collections, the first ones the
\* database listed.
C8_TestNeverFails ==
    out.op = "test_database" =>
        /\ out.status = 200
        /\ out.body.backend = "Running"
        /\ Len(out.body.collections) <= 10
        /\ Len(out.body.collections) <= out.req.listed
        /\ out.req.listed <= 10 => Len(out.body.collections) = out.req.listed
        /\ ~db => out.body.collections = <<>>

\* the database listed more than 10 collections and 10 were returned
C8_Witness ==
    /\ out.op = "test_database"
    /\ out.req.listed > 10
    /\ Len(out.body.collections) = 10

\* C9: the collection changes only by a successful signup appending one
\* account with onboarded=false; every other step, and every later step,
\* leaves each stored account as it is.
C9_AccountsOnlyAppended ==
    [][/\ accounts' # accounts =>
             /\ out'.op = "signup" /\ out'.status = 200
             /\ \E ctx \in BagToSet(pending) : SignupInsert(ctx)
             /\ Len(accounts') = Len(accounts) + 1
             /\ accounts'[Len(accounts')].onboarded = FALSE
       /\ \A i \in 1..Len(accounts) :
             Len(accounts') >= i /\ accounts'[i] = accounts[i]
       /\ ( \/ out'.op \in { "login", "test_database", "read_root", "hello" }
            \/ out'.status # 200 ) => accounts' = accounts]_vars

\* a login succeeded on a stored account, which is still as it was stored
C9_Witness ==
    /\ out.op = "login" /\ out.status = 200
    /\ Len(accounts) = MaxAccounts
    /\ \A i \in 1..Len(accounts) : accounts[i].onboarded = FALSE

\* C10: when no signup runs between another signup's lookup and insert, no two
\* stored accounts have the same trimmed name or the same normalized email.
C10_SequentialSignupsUnique ==
    \A i \in 1..Len(accounts) : \A j \in (i + 1)..Len(accounts) :
        /\ accounts[i].name # accounts[j].name
        /\ accounts[i].email # accounts[j].email

\* two signups went through one after the other
C10_Witness ==
    /\ Len(accounts) = 2
    /\ SignedUp
    /\ out.body.id = IdStr(2)

====
